---- MODULE Spec2Model ----
(***************************************************************************)
(* Session registry of wolfram_mathematica.py: the module-level dictionary *)
(* `sessions` (token -> WolframLanguageSession) and the three tools        *)
(* create_mathematica_session, execute_mathematica_code and                *)
(* close_mathematica_session that read and write it.                       *)
(*                                                                         *)
(* Each tool invocation is a call that occupies a slot.  A call advances   *)
(* from one access of shared state to the next: every backend call (open,  *)
(* evaluate, terminate) and every read or write of `sessions` that follows *)
(* one is a step of its own, so other calls may run while a backend call   *)
(* is outstanding.  The code takes no lock around `sessions`.              *)
(* execute_mathematica_code is a coroutine (async def) that never awaits:  *)
(* it keeps the server's event loop from its first statement to its        *)
(* return, the blocking session.evaluate included, so no second execute    *)
(* begins meanwhile.  create_mathematica_session and                       *)
(* close_mathematica_session are plain functions; the dispatcher that      *)
(* runs them is not part of the source, so their steps interleave freely   *)
(* with every other call (running them one after the other is one of the   *)
(* interleavings).                                                         *)
(*                                                                         *)
(* The token codec (id_generator.generate / verify) and the backend        *)
(* (WolframLanguageSession) are imported: the codec is modelled as a       *)
(* checksum word over random leading words, the backend by the outcomes    *)
(* of its three calls.                                                     *)
(***************************************************************************)
EXTENDS Naturals, FiniteSets, Sequences

\* ---------------------------------------------------------------- bounds
\* number of call slots: how many tool invocations may be in progress at once
MaxConcurrent == 2
\* number of tool invocations over a whole run
MaxCalls == 4
\* size of the token vocabulary
VocabSize == 2

\* ----------------------------------------------------------- token codec
\* words per token: the leading words are random, the last is the checksum
WordCount == 2

secret_key == 1

Vocab == 0 .. (VocabSize - 1)

\* the random draws of one generate(): WordCount-1 vocabulary indices
Leads == [1 .. (WordCount - 1) -> Vocab]

RECURSIVE SumWords(_, _)
SumWords(ws, n) == IF n = 0 THEN 0 ELSE ws[n] + SumWords(ws, n - 1)

\* keyed one-way function of the leading words, mapped back into the vocabulary
KeyedHash(key, ws) == (key + SumWords(ws, Len(ws))) % VocabSize

\* generate(): the leading words followed by their checksum word
generate(lead) == lead \o << KeyedHash(secret_key, lead) >>

\* verify(candidate): fails closed on a wrong word count or a word outside
\* the vocabulary, else recomputes the checksum word and compares
verify(t) ==
    /\ Len(t) = WordCount
    /\ \A i \in 1 .. Len(t) : t[i] \in Vocab
    /\ t[WordCount] = KeyedHash(secret_key, SubSeq(t, 1, WordCount - 1))

\* what a caller may pass as session_id: every well-formed word sequence,
\* and the empty string
Candidates == [1 .. WordCount -> Vocab] \cup { << >> }

\* ------------------------------------------------------------------ state
Slots == 1 .. MaxConcurrent
\* one handle at most per create call
Handles == 1 .. MaxCalls
None == 0

NoToken == << VocabSize >>

VARIABLES
    sessions,    \* the dictionary: a function from the tokens present to handles
    hstate,      \* backend: handle -> "unopened" | "live" | "terminated"
    termCalls,   \* backend: handle -> number of terminate() invocations on it
    calls,       \* slot -> the invocation in it (position and local variables)
    ncalls,      \* number of invocations started so far
    loop,        \* slot whose coroutine occupies the event loop, or None
    last,        \* the invocation that returned most recently, as it ended
    issued,      \* tokens returned by a successful create so far
    closedOk     \* tokens for which a close has returned success so far

vars == << sessions, hstate, termCalls, calls, ncalls, loop, last, issued, closedOk >>

\* A call: op and pc say where it is; session_id and session are the local
\* variables of the tool function; result and ret are what the caller gets
\* (ret: the token in create's return value).  The remaining fields record
\* what the call has done: readMap/wroteMap whether it read/wrote `sessions`,
\* bcalls its backend calls, afterClose whether it began after a close of its
\* token had returned success, onTerminated whether the handle its lookup
\* found had already had terminate() invoked on it, termRaised whether its terminate() raised,
\* replaced whether its insert overwrote an
\* entry, reissued whether the token it returns had been returned before.
IdleCall ==
    [ op |-> "none", pc |-> "idle",
      session_id |-> NoToken, session |-> None,
      result |-> "none", ret |-> NoToken,
      readMap |-> FALSE, wroteMap |-> FALSE, bcalls |-> 0,
      afterClose |-> FALSE, onTerminated |-> FALSE, termRaised |-> FALSE,
      replaced |-> FALSE, reissued |-> FALSE ]

Init ==
    /\ sessions = << >>
    /\ hstate = [h \in Handles |-> "unopened"]
    /\ termCalls = [h \in Handles |-> 0]
    /\ calls = [s \in Slots |-> IdleCall]
    /\ ncalls = 0
    /\ loop = None
    /\ last = IdleCall
    /\ issued = {}
    /\ closedOk = {}

\* ------------------------------------------------------- dictionary access
Has(t) == t \in DOMAIN sessions

\* sessions.get(session_id)
Get(t) == IF Has(t) THEN sessions[t] ELSE None

\* sessions[session_id] = session
Put(t, h) == [k \in (DOMAIN sessions) \cup {t} |-> IF k = t THEN h ELSE sessions[k]]

\* del sessions[session_id]
Del(t) == [k \in (DOMAIN sessions) \ {t} |-> sessions[k]]

\* a slot is free when no call is in progress in it
Free(s) == calls[s].pc = "idle"

\* a new invocation takes the lowest free slot (slots are interchangeable)
Lowest(s) == \A r \in Slots : Free(r) => s <= r

CanBegin(s) == Free(s) /\ Lowest(s) /\ ncalls < MaxCalls

\* a new invocation of tool o with argument t
Begin(o, t) ==
    [ IdleCall EXCEPT !.op = o, !.session_id = t,
                      !.afterClose = (t \in closedOk) ]

\* the call c returns or raises with result r; its local variable `session`
\* goes out of scope
Ended(c, r) == [c EXCEPT !.result = r, !.pc = "done", !.session = None]

\* the call in slot s moves on as c
Set(s, c) ==
    /\ calls' = [calls EXCEPT ![s] = c]
    /\ last' = last

\* the call in slot s returns as c: the slot is free again
Return(s, c, r) ==
    /\ calls' = [calls EXCEPT ![s] = IdleCall]
    /\ last' = Ended(c, r)

\* ------------------------------------------------------------- the backend
\* WolframLanguageSession(KERNEL_PATH): a live handle, or an exception
OpenOutcomes == { "opened", "raised" }

\* the handle a successful open yields
NewHandle == CHOOSE h \in Handles :
                 /\ hstate[h] = "unopened"
                 /\ \A g \in Handles : hstate[g] = "unopened" => h <= g

\* session.evaluate(wlexpr(code)): a result or an exception; a terminated
\* handle has no kernel to answer and only fails
EvaluateOutcomes(h) ==
    IF hstate[h] = "live" THEN { "result", "raised" } ELSE { "raised" }

\* session.terminate(): returns, or raises with the kernel either gone or
\* still running
TerminateOutcomes == { "returned", "raised_dead", "raised_live" }

AfterTerminate(h, out) ==
    IF out = "raised_live" THEN hstate[h] ELSE "terminated"

\* -------------------------------------------- create_mathematica_session
\* line 102: session_id = id_generator.generate()
CreateStart(s) ==
    /\ CanBegin(s)
    /\ \E lead \in Leads :
         Set(s, [Begin("create", generate(lead)) EXCEPT !.pc = "open"])
    /\ ncalls' = ncalls + 1
    /\ UNCHANGED << sessions, hstate, termCalls, loop, issued, closedOk >>

\* CreateOpen with a slip: the failure path hands the generated token back
CreateOpen_LeakToken(s) ==
    /\ calls[s].op = "create" /\ calls[s].pc = "open"
    /\ \E out \in OpenOutcomes :
         IF out = "opened"
         THEN /\ hstate' = [hstate EXCEPT ![NewHandle] = "live"]
              /\ Set(s, [calls[s] EXCEPT !.session = NewHandle,
                                         !.bcalls = @ + 1,
                                         !.pc = "insert"])
         ELSE /\ hstate' = hstate
              /\ Return(s, [calls[s] EXCEPT !.bcalls = @ + 1,
                                            !.ret = calls[s].session_id],
                        "backend_failure")
    /\ UNCHANGED << sessions, termCalls, ncalls, loop, issued, closedOk >>

\* line 105: session = WolframLanguageSession(KERNEL_PATH); lines 108-109 on
\* an exception
CreateOpen(s) ==
    /\ calls[s].op = "create" /\ calls[s].pc = "open"
    /\ \E out \in OpenOutcomes :
         IF out = "opened"
         THEN /\ hstate' = [hstate EXCEPT ![NewHandle] = "live"]
              /\ Set(s, [calls[s] EXCEPT !.session = NewHandle,
                                         !.bcalls = @ + 1,
                                         !.pc = "insert"])
         ELSE /\ hstate' = hstate
              /\ Return(s, [calls[s] EXCEPT !.bcalls = @ + 1], "backend_failure")
    /\ UNCHANGED << sessions, termCalls, ncalls, loop, issued, closedOk >>

\* lines 106-107: sessions[session_id] = session; return the token
CreateInsert(s) ==
    /\ calls[s].op = "create" /\ calls[s].pc = "insert"
    /\ sessions' = Put(calls[s].session_id, calls[s].session)
    /\ issued' = issued \cup { calls[s].session_id }
    /\ Return(s, [calls[s] EXCEPT
                     !.wroteMap = TRUE,
                     !.replaced = Has(calls[s].session_id),
                     !.reissued = (calls[s].session_id \in issued),
                     !.ret = calls[s].session_id], "ok")
    /\ UNCHANGED << hstate, termCalls, ncalls, loop, closedOk >>

\* ---------------------------------------------- execute_mathematica_code
\* ExecuteStart with a slip: a verified token without an entry gets a session
\* opened for it on the spot
ExecuteStart_AutoCreate(s, t) ==
    /\ CanBegin(s)
    /\ loop = None
    /\ ncalls' = ncalls + 1
    /\ IF ~verify(t)
       THEN /\ Return(s, Begin("execute", t), "invalid_token")
            /\ loop' = None
            /\ UNCHANGED << sessions, hstate >>
       ELSE /\ sessions' = IF Has(t) THEN sessions ELSE Put(t, NewHandle)
            /\ hstate' = IF Has(t) THEN hstate
                         ELSE [hstate EXCEPT ![NewHandle] = "live"]
            /\ Set(s, [Begin("execute", t) EXCEPT
                           !.readMap = TRUE,
                           !.session = IF Has(t) THEN Get(t) ELSE NewHandle,
                           !.pc = "evaluate"])
            /\ loop' = s
    /\ UNCHANGED << termCalls, issued, closedOk >>

\* ExecuteStart with a slip: the payload is verified in place of the token
ExecuteStart_VerifyCode(s, t) ==
    /\ CanBegin(s)
    /\ loop = None
    /\ ncalls' = ncalls + 1
    /\ IF ~verify(<< >>)
       THEN /\ Return(s, Begin("execute", t), "invalid_token")
            /\ loop' = None
       ELSE IF ~Has(t)
       THEN /\ Return(s, [Begin("execute", t) EXCEPT !.readMap = TRUE], "not_found")
            /\ loop' = None
       ELSE /\ Set(s, [Begin("execute", t) EXCEPT
                           !.readMap = TRUE,
                           !.session = Get(t),
                           !.onTerminated = (termCalls[Get(t)] > 0),
                           !.pc = "evaluate"])
            /\ loop' = s
    /\ UNCHANGED << sessions, hstate, termCalls, issued, closedOk >>

\* line 113 and lines 137-145: the coroutine starts on the event loop,
\* verifies the token, then looks it up
ExecuteStart(s, t) ==
    /\ CanBegin(s)
    /\ loop = None
    /\ ncalls' = ncalls + 1
    /\ IF ~verify(t)
       THEN /\ Return(s, Begin("execute", t), "invalid_token")
            /\ loop' = None
       ELSE IF ~Has(t)
       THEN /\ Return(s, [Begin("execute", t) EXCEPT !.readMap = TRUE], "not_found")
            /\ loop' = None
       ELSE /\ Set(s, [Begin("execute", t) EXCEPT
                           !.readMap = TRUE,
                           !.session = Get(t),
                           !.onTerminated = (termCalls[Get(t)] > 0),
                           !.pc = "evaluate"])
            /\ loop' = s
    /\ UNCHANGED << sessions, hstate, termCalls, issued, closedOk >>

\* ExecuteEvaluate with a slip: a failed evaluation evicts the session
ExecuteEvaluate_Evict(s) ==
    /\ calls[s].op = "execute" /\ calls[s].pc = "evaluate"
    /\ \E out \in EvaluateOutcomes(calls[s].session) :
         /\ Return(s, [calls[s] EXCEPT !.bcalls = @ + 1],
                   IF out = "result" THEN "ok" ELSE "backend_failure")
         /\ sessions' = IF out = "result" THEN sessions ELSE Del(calls[s].session_id)
    /\ loop' = None
    /\ UNCHANGED << hstate, termCalls, ncalls, issued, closedOk >>

\* lines 147-154: result = session.evaluate(wlexpr(code)), and the return
ExecuteEvaluate(s) ==
    /\ calls[s].op = "execute" /\ calls[s].pc = "evaluate"
    /\ \E out \in EvaluateOutcomes(calls[s].session) :
         Return(s, [calls[s] EXCEPT !.bcalls = @ + 1],
                IF out = "result" THEN "ok" ELSE "backend_failure")
    /\ loop' = None
    /\ UNCHANGED << sessions, hstate, termCalls, ncalls, issued, closedOk >>

\* --------------------------------------------- close_mathematica_session
\* CloseStart with a slip: the dictionary is consulted before the token is
\* verified
CloseStart_LookupFirst(s, t) ==
    /\ CanBegin(s)
    /\ ncalls' = ncalls + 1
    /\ IF ~Has(t)
       THEN Return(s, [Begin("close", t) EXCEPT !.readMap = TRUE], "not_found")
       ELSE IF ~verify(t)
       THEN Return(s, [Begin("close", t) EXCEPT !.readMap = TRUE], "invalid_token")
       ELSE Set(s, [Begin("close", t) EXCEPT !.readMap = TRUE,
                                             !.session = Get(t),
                                             !.pc = "terminate"])
    /\ UNCHANGED << sessions, hstate, termCalls, loop, issued, closedOk >>

\* lines 175-180: verify the token, then look it up
CloseStart(s, t) ==
    /\ CanBegin(s)
    /\ ncalls' = ncalls + 1
    /\ IF ~verify(t)
       THEN Return(s, Begin("close", t), "invalid_token")
       ELSE IF ~Has(t)
       THEN Return(s, [Begin("close", t) EXCEPT !.readMap = TRUE], "not_found")
       ELSE Set(s, [Begin("close", t) EXCEPT !.readMap = TRUE,
                                             !.session = Get(t),
                                             !.pc = "terminate"])
    /\ UNCHANGED << sessions, hstate, termCalls, loop, issued, closedOk >>

\* line 184: session.terminate(); lines 187-190 on an exception
CloseTerminate(s) ==
    /\ calls[s].op = "close" /\ calls[s].pc = "terminate"
    /\ termCalls' = [termCalls EXCEPT ![calls[s].session] = @ + 1]
    /\ \E out \in TerminateOutcomes :
         /\ hstate' = [hstate EXCEPT ![calls[s].session] =
                           AfterTerminate(calls[s].session, out)]
         /\ IF out = "returned"
            THEN Set(s, [calls[s] EXCEPT !.bcalls = @ + 1, !.pc = "del"])
            ELSE Return(s, [calls[s] EXCEPT !.bcalls = @ + 1, !.termRaised = TRUE],
                        "backend_failure")
    /\ UNCHANGED << sessions, ncalls, loop, issued, closedOk >>

\* lines 185-186: del sessions[session_id], and the return; a KeyError is
\* caught by the except clause of lines 187-190 like any other exception
CloseDel(s) ==
    /\ calls[s].op = "close" /\ calls[s].pc = "del"
    /\ IF Has(calls[s].session_id)
       THEN /\ sessions' = Del(calls[s].session_id)
            /\ closedOk' = closedOk \cup { calls[s].session_id }
            /\ Return(s, [calls[s] EXCEPT !.wroteMap = TRUE], "ok")
       ELSE /\ sessions' = sessions
            /\ closedOk' = closedOk
            /\ Return(s, calls[s], "backend_failure")
    /\ UNCHANGED << hstate, termCalls, ncalls, loop, issued >>

\* ------------------------------------------------------------ specification
Next ==
    \E s \in Slots :
        \/ CreateStart(s)
        \/ CreateOpen(s)
        \/ CreateInsert(s)
        \/ \E t \in Candidates : ExecuteStart(s, t)
        \/ ExecuteEvaluate(s)
        \/ \E t \in Candidates : CloseStart(s, t)
        \/ CloseTerminate(s)
        \/ CloseDel(s)

Spec == Init /\ [][Next]_vars

\* ------------------------------------------------------------------ claims
Returned == last.pc = "done"

\* C1: a token returned by create is usable until closed; once close(T) has
\* returned success, every execute(T) and close(T) that begins afterwards
\* fails with session-not-found (stated here: the part after the close).
C1_NotFoundAfterClose ==
    (Returned /\ last.op \in { "execute", "close" } /\ last.afterClose)
        => last.result = "not_found"

\* a step in which a new invocation begins
StartStep == ncalls' = ncalls + 1

\* C2: execute and close check the token first and the dictionary second.  A
\* call whose token does not verify returns invalid-token without reading
\* `sessions`; a call whose token verifies but has no entry returns
\* session-not-found; either way no backend call is made, the dictionary and
\* the backend are unchanged, and a call gets past the two checks only with
\* a verified token that has an entry.
C2_FailFast ==
    [][ StartStep =>
          IF calls' = calls
          THEN /\ last'.op \in { "execute", "close" }
               /\ sessions' = sessions /\ hstate' = hstate /\ termCalls' = termCalls
               /\ last'.bcalls = 0
               /\ IF verify(last'.session_id)
                  THEN last'.result = "not_found" /\ ~Has(last'.session_id)
                  ELSE last'.result = "invalid_token" /\ ~last'.readMap
          ELSE \A s \in Slots :
                  (calls'[s] # calls[s]) =>
                      \/ calls'[s].op = "create"
                      \/ verify(calls'[s].session_id) /\ Has(calls'[s].session_id)
      ]_vars

C2_Witness ==
    /\ Returned /\ last.op = "close" /\ last.result = "invalid_token"
    /\ DOMAIN sessions # {}

\* C3: no execute looks up T, finds a handle on which close has already
\* invoked terminate, and forwards its payload to it.
C3_NoEvaluateOnTerminated ==
    ~(Returned /\ last.op = "execute" /\ last.onTerminated /\ last.bcalls > 0)

\* C4: the dictionary holds no entry whose handle has been terminated.
C4_NoTerminatedEntry ==
    \A t \in DOMAIN sessions : hstate[sessions[t]] # "terminated"

\* C5: of the close(T) calls that run concurrently on a live token, one
\* returns success and the others fail with session-not-found: a close
\* whose terminate() did not raise never reports a backend failure.
C5_CloseOnce ==
    (Returned /\ last.op = "close" /\ last.result = "backend_failure")
        => last.termRaised

\* C6: successful creates return pairwise distinct tokens, and create never
\* inserts under a key that is already present.
C6_CreateNeverReplaces ==
    (Returned /\ last.op = "create" /\ last.result = "ok")
        => ~last.replaced /\ ~last.reissued

\* C7: closed is terminal: a token whose close has returned success is never
\* present in the dictionary again.
C7_ClosedIsTerminal ==
    \A t \in closedOk : ~Has(t)

\* C8: when the backend open fails, create fails with backend-failure, the
\* dictionary is as it was before the call, and the call hands its token to
\* no one: it returns none and records none as issued.
C8_FailedCreate ==
    [][ \A s \in Slots :
          (calls[s].op = "create" /\ calls[s].pc = "open" /\ calls'[s].pc = "idle")
              => /\ last'.op = "create" /\ last'.result = "backend_failure"
                 /\ last'.ret = NoToken
                 /\ sessions' = sessions
                 /\ issued' = issued
      ]_vars

C8_Witness ==
    /\ Returned /\ last.op = "create" /\ last.result = "backend_failure"
    /\ DOMAIN sessions # {}

\* a step of an execute call: it begins, or it returns from evaluate
ExecuteStep ==
    \/ StartStep /\ calls' = calls /\ last'.op = "execute"
    \/ \E s \in Slots : calls[s].pc = "idle" /\ calls'[s].op = "execute"
    \/ \E s \in Slots : calls[s].op = "execute" /\ calls'[s].pc = "idle"

\* C9: no step of an execute call changes the dictionary, whatever its
\* outcome.
C9_ExecuteKeepsMap ==
    [][ ExecuteStep => sessions' = sessions ]_vars

C9_Witness ==
    /\ Returned /\ last.op = "execute" /\ last.result = "backend_failure"
    /\ Has(last.session_id)

\* C10: while an execute is blocked in the backend evaluation on token A, an
\* execute on a different live token B can begin.
C10_ExecuteDoesNotBlock ==
    \A s \in Slots :
        calls[s].pc = "evaluate" =>
            \A r \in Slots : \A t \in DOMAIN sessions :
                (CanBegin(r) /\ t # calls[s].session_id)
                    => ENABLED ExecuteStart(r, t)

\* C11: in a close, the entry of T is removed before terminate() is invoked
\* on its handle (lookup and removal being one step), and in a create the
\* handle is opened before the entry is inserted.
C11_RemoveBeforeTerminate ==
    [][ /\ \A h \in Handles :
             termCalls'[h] > termCalls[h]
                 => \A t \in DOMAIN sessions : sessions[t] # h
        /\ \A t \in DOMAIN sessions' :
             (t \notin DOMAIN sessions \/ sessions'[t] # sessions[t])
                 => hstate[sessions'[t]] = "live"
      ]_vars

\* C12: terminate() is invoked at most once on any handle.
C12_TerminateOnce ==
    \A h \in Handles : termCalls[h] <= 1

\* C13: every key of the dictionary verifies and was produced by generate()
\* in a create call that inserted and returned it; no token a caller
\* supplied becomes a key.
C13_KeysAreIssuedTokens ==
    \A t \in DOMAIN sessions : verify(t) /\ t \in issued

C13_Witness ==
    /\ Returned /\ last.op = "execute" /\ last.result = "not_found"
    /\ verify(last.session_id) /\ last.session_id \notin issued
    /\ DOMAIN sessions # {}

\* C14: a token returned by a successful create verifies, and an execute or
\* close given it never fails with invalid-token.
C14_IssuedTokenVerifies ==
    /\ \A t \in issued : verify(t)
    /\ (Returned /\ last.op \in { "execute", "close" } /\ last.session_id \in issued)
           => last.result # "invalid_token"

C14_Witness ==
    /\ Returned /\ last.op = "execute" /\ last.session_id \in issued
    /\ last.result = "ok"

\* C15: when terminate() fails in close(T), close reports backend-failure
\* for T and the dictionary is as before the call: T is still mapped to the
\* handle the call looked up.
C15_FailedCloseKeepsEntry ==
    [][ \A s \in Slots :
          (calls[s].op = "close" /\ calls[s].pc = "terminate" /\ calls'[s].pc = "idle")
              => /\ last'.op = "close" /\ last'.result = "backend_failure"
                 /\ last'.session_id = calls[s].session_id
                 /\ calls[s].session_id \in DOMAIN sessions'
                 /\ sessions'[calls[s].session_id] = calls[s].session
      ]_vars

\* a create call holds handle h and has not returned yet
BeingCreated(h) ==
    \E s \in Slots : calls[s].op = "create" /\ calls[s].session = h

\* C16: every handle opened by a create that has returned, on which
\* terminate() has not been invoked, is the value of a dictionary entry.
C16_NoLeakedHandle ==
    \A h \in Handles :
        (hstate[h] # "unopened" /\ termCalls[h] = 0 /\ ~BeingCreated(h))
            => \E t \in DOMAIN sessions : sessions[t] = h

====
